---------------------------- MODULE Spec2Model ----------------------------
(***************************************************************************)
(* Usage accounting and quota enforcement of the TrueBackup backend:       *)
(* the stored procedures of database/schema.sql (recalculate_client_       *)
(* storage, record_egress, reset_monthly_egress) and the request handlers  *)
(* of src/controllers/file.controller.js, the browse controller and the    *)
(* client controller that call them.                                       *)
(*                                                                         *)
(* Units.  Byte counts (size_bytes, fileSize, p_bytes) are carried in      *)
(* units of 1 MiB, so 1024 * 1024 * 1024 bytes are BytesPerGB = 1024       *)
(* units.  DECIMAL(10,2) columns are carried in hundredths of a GB,        *)
(* DECIMAL(12,4) columns in ten-thousandths of a GB, DECIMAL(5,2) in       *)
(* hundredths of a percent.  Time is the calendar month, a number.         *)
(***************************************************************************)
EXTENDS Integers, Sequences, FiniteSets, Bags, TLC

VARIABLES
    clients,                \* table clients, by id
    client_storage_config,  \* table client_storage_config: is_verified by client
    files,                  \* table files: the rows in insertion order, id = index
    egress_usage,           \* table egress_usage: a set of rows
    alerts,                 \* table alerts: the rows in insertion order
    system_settings,        \* the JSON value of key block_downloads_on_overage
    download_history,       \* table download_history: a bag of rows
    activity_logs,          \* table activity_logs: the rows of the monthly job
    now,                    \* the calendar month of NOW()
    handlers,               \* the requests in flight, statement by statement
    response                \* the response of the last completed request

vars == <<clients, client_storage_config, files, egress_usage, alerts,
          system_settings, download_history, activity_logs, now, handlers,
          response>>

-----------------------------------------------------------------------------
(* Bounds of the model *)

MaxFiles == 2
MaxAlerts == 4
MaxMonth == 2
MaxDownloads == 6
MaxEgress == 11000
MaxBrowseDownloads == 4
MaxResets == 2

(* Values of the source *)

NULL == 0
Unit == 1024 * 1024
BytesPerGB == (1024 * 1024 * 1024) \div Unit

ClientIds == {"c1", "c2"}
Handlers == {1, 2}
Months == 1..MaxMonth
Etags == {1}

\* The request bodies the model draws its inputs from
UploadSizes == {300, 800}
UploadNames == {"a"}
AdminTargets == {"c1"}
LimitChoices == {80, 5}
GateLimits == {70, 100}
GateSizes == {300, 1536}
JsonValues == {"false", "true", "\"true\""}

-----------------------------------------------------------------------------
(* Decimal arithmetic of MySQL: a value assigned to a DECIMAL(p,s) variable *)
(* or column is rounded half away from zero to s places.                    *)

RoundHalfUp(n, d) == ((2 * n) + d) \div (2 * d)

\* SUM(size_bytes) / (1024 * 1024 * 1024) INTO total_size_gb DECIMAL(10,2)
ToStorageGb(bytes) == RoundHalfUp(bytes * 100, BytesPerGB)

\* SET v_gb = p_bytes / (1024 * 1024 * 1024), v_gb DECIMAL(12,4)
ToEgressGb(bytes) == RoundHalfUp(bytes * 10000, BytesPerGB)

RECURSIVE SumSizes(_, _)
SumSizes(rows, ids) ==
    IF ids = {} THEN 0
    ELSE LET i == CHOOSE x \in ids : TRUE
         IN rows[i].size_bytes + SumSizes(rows, ids \ {i})

FileIds == 1..Len(files)

-----------------------------------------------------------------------------
(* Stored procedure recalculate_client_storage *)

\* A deviation: the WHERE clause without client_id = p_client_id
CountedFileAnyOwner(row, c) ==
    /\ row.type = "file"
    /\ row.deleted_at = NULL

\* WHERE client_id = p_client_id AND type = 'file' AND deleted_at IS NULL
CountedFile(row, c) ==
    /\ row.client_id = c
    /\ row.type = "file"
    /\ row.deleted_at = NULL

\* SELECT COALESCE(SUM(size_bytes), 0) / (1024 * 1024 * 1024) INTO total_size_gb
total_size_gb(rows, c) ==
    ToStorageGb(SumSizes(rows, {i \in 1..Len(rows) : CountedFile(rows[i], c)}))

\* UPDATE clients SET storage_used_gb = total_size_gb WHERE id = p_client_id
recalculate_client_storage(cl, rows, c) ==
    [cl EXCEPT ![c].storage_used_gb = total_size_gb(rows, c)]

-----------------------------------------------------------------------------
(* The Access Gate of getUploadUrl *)

IsVerified(c) == client_storage_config[c] = "verified"

\* parseFloat(storage_used_gb) + fileSize / 2^30 > parseFloat(storage_quota_gb),
\* both sides multiplied by 100 * BytesPerGB
QuotaExceeded(c, fileSize) ==
    (clients[c].storage_used_gb * BytesPerGB) + (fileSize * 100)
        > clients[c].storage_quota_gb * BytesPerGB

\* A deviation: the quota is checked before the status and the configuration
UploadGateQuotaFirst(c, fileSize) ==
    IF QuotaExceeded(c, fileSize) THEN "QUOTA_EXCEEDED"
    ELSE IF clients[c].status # "active" THEN "ACCOUNT_SUSPENDED"
    ELSE IF ~IsVerified(c) THEN "STORAGE_NOT_CONFIGURED"
    ELSE "OK"

UploadGate(c, fileSize) ==
    IF clients[c].status # "active" THEN "ACCOUNT_SUSPENDED"
    ELSE IF ~IsVerified(c) THEN "STORAGE_NOT_CONFIGURED"
    ELSE IF QuotaExceeded(c, fileSize) THEN "QUOTA_EXCEEDED"
    ELSE "OK"

\* path = fileName, or the parent's path / fileName when the parent is a row
\* of the same client
BuildPath(c, fileName, parentId) ==
    IF parentId # NULL /\ parentId \in FileIds /\ files[parentId].client_id = c
    THEN Append(files[parentId].path, fileName)
    ELSE <<fileName>>

\* generateS3Key(bucket_prefix, `${path}/${fileName}`): the client's prefix is
\* the client, the key is prefix/path/fileName
generateS3Key(c, path, fileName) == <<c>> \o path \o <<fileName>>

Idle == handlers = [h \in DOMAIN handlers |-> [pc |-> "idle"]]

\* res.json / next(error): the operation, the caller, the argument the claims
\* refer to (fileSize, fileId) and the error code, OK for success
Respond(op, c, arg, code) ==
    response' = [op |-> op, client_id |-> c, arg |-> arg, code |-> code]

RequestVars == <<handlers>>
EgressVars == <<egress_usage, alerts, system_settings, download_history,
                activity_logs, now>>

-----------------------------------------------------------------------------
(* Handlers of file.controller.js, each as one step *)

createFolder(c, name, parentId) ==
    /\ Idle
    /\ files' = Append(files,
            [client_id |-> c, name |-> name, size_bytes |-> 0, type |-> "folder",
             path |-> BuildPath(c, name, parentId), parent_id |-> parentId,
             s3_key |-> <<>>, s3_etag |-> NULL, deleted_at |-> NULL])
    /\ Respond("createFolder", c, 0, "OK")
    /\ UNCHANGED <<clients, client_storage_config, EgressVars, RequestVars>>

\* A deviation: the files row is inserted before the URL is signed
getUploadUrlRowFirst(c, fileName, fileSize, parentId, s3ok) ==
    /\ Idle
    /\ LET gate == UploadGate(c, fileSize)
           path == BuildPath(c, fileName, parentId)
       IN IF gate # "OK"
          THEN /\ Respond("getUploadUrl", c, fileSize, gate)
               /\ UNCHANGED files
          ELSE /\ files' = Append(files,
                      [client_id |-> c, name |-> fileName, size_bytes |-> fileSize,
                       type |-> "file", path |-> path, parent_id |-> parentId,
                       s3_key |-> generateS3Key(c, path, fileName),
                       s3_etag |-> NULL, deleted_at |-> NULL])
               /\ Respond("getUploadUrl", c, fileSize,
                          IF s3ok THEN "OK" ELSE "STORAGE_ERROR")
    /\ UNCHANGED <<clients, client_storage_config, EgressVars, RequestVars>>

getUploadUrl(c, fileName, fileSize, parentId, s3ok) ==
    /\ Idle
    /\ LET gate == UploadGate(c, fileSize)
           path == BuildPath(c, fileName, parentId)
       IN IF gate # "OK"
          THEN /\ Respond("getUploadUrl", c, fileSize, gate)
               /\ UNCHANGED files
          ELSE IF ~s3ok
          THEN /\ Respond("getUploadUrl", c, fileSize, "STORAGE_ERROR")
               /\ UNCHANGED files
          ELSE /\ files' = Append(files,
                      [client_id |-> c, name |-> fileName, size_bytes |-> fileSize,
                       type |-> "file", path |-> path, parent_id |-> parentId,
                       s3_key |-> generateS3Key(c, path, fileName),
                       s3_etag |-> NULL, deleted_at |-> NULL])
               /\ Respond("getUploadUrl", c, fileSize, "OK")
    /\ UNCHANGED <<clients, client_storage_config, EgressVars, RequestVars>>

confirmUpload(c, fileId, etag) ==
    /\ Idle
    /\ IF fileId \in FileIds /\ files[fileId].client_id = c
       THEN /\ files' = [files EXCEPT ![fileId].s3_etag = etag]
            /\ clients' = recalculate_client_storage(clients, files', c)
            /\ Respond("confirmUpload", c, fileId, "OK")
       ELSE /\ Respond("confirmUpload", c, fileId, "FILE_NOT_FOUND")
            /\ UNCHANGED <<files, clients>>
    /\ UNCHANGED <<client_storage_config, EgressVars, RequestVars>>

\* The rows the request selects: id IN (fileIds), of the caller, not deleted
SelectedForDelete(c, fileIds) ==
    {i \in FileIds : i \in fileIds /\ files[i].client_id = c
                     /\ files[i].deleted_at = NULL}

\* UPDATE files SET deleted_at = NOW() WHERE id IN (fileIds)
SoftDeleteIds(rows, fileIds, t) ==
    [i \in 1..Len(rows) |->
        IF i \in fileIds THEN [rows[i] EXCEPT !.deleted_at = t] ELSE rows[i]]

deleteFiles(c, fileIds, s3ok) ==
    /\ Idle
    /\ fileIds # {}
    /\ IF SelectedForDelete(c, fileIds) = {}
       THEN /\ Respond("deleteFiles", c, 0, "FILES_NOT_FOUND")
            /\ UNCHANGED <<files, clients>>
       ELSE IF ~s3ok /\ (\E i \in SelectedForDelete(c, fileIds) : files[i].s3_key # <<>>)
       THEN \* s3Service.deleteFiles throws inside transaction(): rolled back
            /\ Respond("deleteFiles", c, 0, "STORAGE_ERROR")
            /\ UNCHANGED <<files, clients>>
       ELSE /\ files' = SoftDeleteIds(files, fileIds, now)
            /\ clients' = recalculate_client_storage(clients, files', c)
            /\ Respond("deleteFiles", c, 0, "OK")
    /\ UNCHANGED <<client_storage_config, EgressVars, RequestVars>>

-----------------------------------------------------------------------------
(* Handlers of the browse controller *)

\* UPDATE files SET deleted_at = NOW() WHERE client_id = ? AND path = ?
SoftDeletePath(rows, c, filePath, t) ==
    [i \in 1..Len(rows) |->
        IF rows[i].client_id = c /\ rows[i].path = filePath
        THEN [rows[i] EXCEPT !.deleted_at = t] ELSE rows[i]]

deleteFile(c, filePath, s3ok) ==
    /\ Idle
    /\ IF client_storage_config[c] = "absent"
       THEN /\ Respond("deleteFile", c, 0, "NO_STORAGE_CONFIG")
            /\ UNCHANGED files
       ELSE IF ~s3ok
       THEN /\ Respond("deleteFile", c, 0, "DELETE_ERROR")
            /\ UNCHANGED files
       ELSE /\ files' = SoftDeletePath(files, c, filePath, now)
            /\ Respond("deleteFile", c, 0, "OK")
    /\ UNCHANGED <<clients, client_storage_config, EgressVars, RequestVars>>

-----------------------------------------------------------------------------
(* Handlers of admin.controller.js *)

toggleClientStatus(c, status) ==
    /\ Idle
    /\ clients' = [clients EXCEPT ![c].status = status]
    /\ Respond("toggleClientStatus", c, 0, "OK")
    /\ UNCHANGED <<client_storage_config, files, EgressVars, RequestVars>>

\* updateClient with a body of storageQuotaGb, egressFreeLimitGb and
\* storageConfig; NULL is a field the body leaves out, verified is the result of
\* the connection test
updateClient(c, storageQuotaGb, egressFreeLimitGb, storageConfig, verified) ==
    /\ Idle
    /\ clients' = [clients EXCEPT
            ![c].storage_quota_gb =
                IF storageQuotaGb # NULL THEN storageQuotaGb ELSE @,
            ![c].egress_free_limit_gb =
                IF egressFreeLimitGb # NULL THEN egressFreeLimitGb ELSE @]
    /\ client_storage_config' =
            IF storageConfig
            THEN [client_storage_config EXCEPT
                    ![c] = IF verified THEN "verified" ELSE "unverified"]
            ELSE client_storage_config
    /\ Respond("updateClient", c, 0, "OK")
    /\ UNCHANGED <<files, EgressVars, RequestVars>>

-----------------------------------------------------------------------------
(* Stored procedure record_egress, statement by statement *)

\* A deviation: a plain INSERT of the new total into a table without the
\* unique key, which leaves the row it read in place
UpsertEgressInsertTotal(rows, c, m, v_gb) ==
    rows \cup {[client_id |-> c, month_year |-> m,
                egress_used_gb |->
                    v_gb + (IF \E r \in rows : r.client_id = c /\ r.month_year = m
                            THEN (CHOOSE r \in rows :
                                    r.client_id = c /\ r.month_year = m).egress_used_gb
                            ELSE 0)]}

\* A deviation: ON DUPLICATE KEY UPDATE egress_used_gb = v_gb, which overwrites
UpsertEgressOverwrite(rows, c, m, v_gb) ==
    {r \in rows : ~(r.client_id = c /\ r.month_year = m)}
        \cup {[client_id |-> c, month_year |-> m, egress_used_gb |-> v_gb]}

\* INSERT INTO egress_usage ... ON DUPLICATE KEY UPDATE egress_used_gb =
\* egress_used_gb + v_gb, the key being (client_id, month_year)
UpsertEgress(rows, c, m, v_gb) ==
    IF \E r \in rows : r.client_id = c /\ r.month_year = m
    THEN {IF r.client_id = c /\ r.month_year = m
          THEN [r EXCEPT !.egress_used_gb = @ + v_gb] ELSE r : r \in rows}
    ELSE rows \cup {[client_id |-> c, month_year |-> m, egress_used_gb |-> v_gb]}

\* COALESCE(e.egress_used_gb, 0) of the row of (client, month)
MonthEgress(rows, c, m) ==
    IF \E r \in rows : r.client_id = c /\ r.month_year = m
    THEN (CHOOSE r \in rows : r.client_id = c /\ r.month_year = m).egress_used_gb
    ELSE 0

\* SET v_usage_percent = (v_current_egress / v_free_limit) * 100, DECIMAL(5,2)
UsagePercent(v_current_egress, v_free_limit) ==
    RoundHalfUp(v_current_egress * 100, v_free_limit)

\* DECIMAL(5,2) holds at most 999.99
PercentMax == 99999

NewAlert(c, type, threshold, t) ==
    [client_id |-> c, alert_type |-> type, threshold_percent |-> threshold,
     is_read |-> FALSE, created_at |-> t]

\* A deviation: the query with alert_type = 'egress_limit', which never
\* finds a warning
WarningExistsLimitKind(rows, c, threshold, t) ==
    \E i \in 1..Len(rows) :
        /\ rows[i].client_id = c
        /\ rows[i].alert_type = "egress_limit"
        /\ rows[i].threshold_percent = threshold
        /\ rows[i].created_at >= t

\* A deviation: the query with AND is_read = FALSE, which forgets the alerts
\* the user has read
WarningExistsUnread(rows, c, threshold, t) ==
    \E i \in 1..Len(rows) :
        /\ rows[i].client_id = c
        /\ rows[i].alert_type = "egress_warning"
        /\ rows[i].threshold_percent = threshold
        /\ rows[i].created_at >= t
        /\ ~rows[i].is_read

\* EXISTS (SELECT 1 FROM alerts WHERE client_id = p_client_id AND alert_type =
\* 'egress_warning' AND threshold_percent = .. AND created_at >= first of month)
WarningExists(rows, c, threshold, t) ==
    \E i \in 1..Len(rows) :
        /\ rows[i].client_id = c
        /\ rows[i].alert_type = "egress_warning"
        /\ rows[i].threshold_percent = threshold
        /\ rows[i].created_at >= t

\* INSERT IGNORE INTO alerts ... 'egress_limit', 100: the table has no unique
\* key but its generated id, so IGNORE ignores nothing
InsertLimitAlert(rows, c, t) == Append(rows, NewAlert(c, "egress_limit", 100, t))

\* A deviation: the thresholds tested in ascending order
CheckThresholdsAscending(rows, c, v_usage_percent, t) ==
    IF v_usage_percent >= 8000
    THEN IF ~WarningExists(rows, c, 80, t)
         THEN Append(rows, NewAlert(c, "egress_warning", 80, t)) ELSE rows
    ELSE rows

\* IF .. >= 100 .. ELSEIF .. >= 90 .. ELSEIF .. >= 80 .. END IF
CheckThresholds(rows, c, v_usage_percent, t) ==
    IF v_usage_percent >= 10000
    THEN InsertLimitAlert(rows, c, t)
    ELSE IF v_usage_percent >= 9000
    THEN IF ~WarningExists(rows, c, 90, t)
         THEN Append(rows, NewAlert(c, "egress_warning", 90, t)) ELSE rows
    ELSE IF v_usage_percent >= 8000
    THEN IF ~WarningExists(rows, c, 80, t)
         THEN Append(rows, NewAlert(c, "egress_warning", 80, t)) ELSE rows
    ELSE rows

\* The procedure run without interleaving: the tables it leaves and whether
\* it completed (the assignment of v_usage_percent fails out of range)
record_egress(eu, al, c, p_bytes, t) ==
    LET eu1 == UpsertEgress(eu, c, t, ToEgressGb(p_bytes))
        pct == UsagePercent(MonthEgress(eu1, c, t), clients[c].egress_free_limit_gb)
    IN IF pct > PercentMax
       THEN [egress_usage |-> eu1, alerts |-> al, ok |-> FALSE]
       ELSE [egress_usage |-> eu1, alerts |-> CheckThresholds(al, c, pct, t),
             ok |-> TRUE]

\* A deviation: the DELETE without its created_at condition
ResetAlertsAll(rows, t) ==
    SelectSeq(rows, LAMBDA a : ~(a.alert_type \in {"egress_warning", "egress_limit"}))

\* A deviation: the DELETE without its alert_type condition
ResetAlertsAnyKind(rows, t) ==
    SelectSeq(rows, LAMBDA a : ~(a.created_at < t))

\* A deviation: the DELETE with LIMIT 1, which removes the oldest such alert
ResetAlertsOldest(rows, t) ==
    LET old == {i \in 1..Len(rows) :
                    /\ rows[i].alert_type \in {"egress_warning", "egress_limit"}
                    /\ rows[i].created_at < t}
    IN IF old = {} THEN rows
       ELSE LET first == CHOOSE i \in old : \A j \in old : i <= j
            IN SubSeq(rows, 1, first - 1) \o SubSeq(rows, first + 1, Len(rows))

\* DELETE FROM alerts WHERE alert_type IN ('egress_warning', 'egress_limit')
\* AND created_at < first of the current month
ResetAlerts(rows, t) ==
    SelectSeq(rows, LAMBDA a :
        ~(a.alert_type \in {"egress_warning", "egress_limit"} /\ a.created_at < t))

-----------------------------------------------------------------------------
(* The Access Gate of getDownloadUrl *)

\* The value of a JSON column as the mysql2 driver hands it to the handler:
\* the JSON text parsed to a JavaScript value
JsonColumn(text) ==
    IF text = "true" THEN [type |-> "boolean", value |-> "true"]
    ELSE IF text = "false" THEN [type |-> "boolean", value |-> "false"]
    ELSE [type |-> "string", value |-> "true"]

\* settings[0]?.value === 'true'
blockOnOverage == JsonColumn(system_settings) = [type |-> "string", value |-> "true"]

\* f.id = ? AND c.user_id = ? AND f.deleted_at IS NULL AND f.type = 'file'
DownloadableFile(c, fileId) ==
    /\ fileId \in FileIds
    /\ files[fileId].client_id = c
    /\ files[fileId].deleted_at = NULL
    /\ files[fileId].type = "file"

\* A deviation: the egress row joined without its month_year condition
OverLimitAnyMonth(c) ==
    \E r \in egress_usage : /\ r.client_id = c
                             /\ r.egress_used_gb >= clients[c].egress_free_limit_gb * 100

\* parseFloat(egress_used_gb) >= parseFloat(egress_free_limit_gb), the limit
\* in hundredths and the usage in ten-thousandths of a GB
OverLimit(c) ==
    MonthEgress(egress_usage, c, now) >= clients[c].egress_free_limit_gb * 100

DownloadGate(c, fileId) ==
    IF ~DownloadableFile(c, fileId) THEN "FILE_NOT_FOUND"
    ELSE IF clients[c].status # "active" THEN "ACCOUNT_SUSPENDED"
    ELSE IF blockOnOverage /\ OverLimit(c) THEN "DOWNLOAD_LIMIT_EXCEEDED"
    ELSE "OK"

\* INSERT INTO download_history (file_id, client_id, ..)
HistoryRow(c, fileId, t) ==
    [client_id |-> c, file_id |-> fileId,
     file_size_bytes |-> files[fileId].size_bytes, downloaded_at |-> t]

\* A deviation: record_egress is called before the status and the limit are
\* checked
getDownloadUrlChargedFirst(c, fileId, s3ok) ==
    /\ Idle
    /\ LET gate == DownloadGate(c, fileId)
           rec == record_egress(egress_usage, alerts, c, files[fileId].size_bytes, now)
       IN IF gate = "FILE_NOT_FOUND"
          THEN /\ Respond("getDownloadUrl", c, fileId, gate)
               /\ UNCHANGED <<egress_usage, alerts, download_history>>
          ELSE /\ egress_usage' = rec.egress_usage
               /\ alerts' = rec.alerts
               /\ IF gate = "OK" /\ s3ok /\ rec.ok
                  THEN /\ download_history' =
                            download_history (+) SetToBag({HistoryRow(c, fileId, now)})
                       /\ Respond("getDownloadUrl", c, fileId, "OK")
                  ELSE /\ UNCHANGED download_history
                       /\ Respond("getDownloadUrl", c, fileId,
                                  IF gate # "OK" THEN gate
                                  ELSE IF ~s3ok THEN "STORAGE_ERROR"
                                  ELSE "INTERNAL_ERROR")
    /\ UNCHANGED <<clients, client_storage_config, files, system_settings,
                   activity_logs, now, RequestVars>>

\* getDownloadUrl with the outcome of each call it awaits: the signing of the
\* URL (s3ok), CALL record_egress, and the INSERT INTO download_history
\* (historyOk); any of them that throws ends the handler in next(error)
getDownloadUrlHistory(c, fileId, s3ok, historyOk) ==
    /\ Idle
    /\ LET gate == DownloadGate(c, fileId)
           rec == record_egress(egress_usage, alerts, c, files[fileId].size_bytes, now)
       IN IF gate # "OK"
          THEN /\ Respond("getDownloadUrl", c, fileId, gate)
               /\ UNCHANGED <<egress_usage, alerts, download_history>>
          ELSE IF ~s3ok
          THEN /\ Respond("getDownloadUrl", c, fileId, "STORAGE_ERROR")
               /\ UNCHANGED <<egress_usage, alerts, download_history>>
          ELSE /\ egress_usage' = rec.egress_usage
               /\ alerts' = rec.alerts
               /\ IF rec.ok /\ historyOk
                  THEN /\ download_history' =
                            download_history (+) SetToBag({HistoryRow(c, fileId, now)})
                       /\ Respond("getDownloadUrl", c, fileId, "OK")
                  ELSE /\ UNCHANGED download_history
                       /\ Respond("getDownloadUrl", c, fileId, "INTERNAL_ERROR")
    /\ UNCHANGED <<clients, client_storage_config, files, system_settings,
                   activity_logs, now, RequestVars>>

\* The same handler when the INSERT INTO download_history succeeds
getDownloadUrl(c, fileId, s3ok) == getDownloadUrlHistory(c, fileId, s3ok, TRUE)

-----------------------------------------------------------------------------
(* getDownloadUrl of the browse controller (GET and POST /browse/download) *)

\* SELECT id FROM files WHERE client_id = ? AND path = ? AND deleted_at IS NULL
\* LIMIT 1: the ids the query may return, NULL when there is no such row
BrowseFileIds(c, filePath) ==
    LET found == {i \in FileIds : /\ files[i].client_id = c
                                   /\ files[i].path = filePath
                                   /\ files[i].deleted_at = NULL}
    IN IF found = {} THEN {NULL} ELSE found

\* INSERT INTO download_history (client_id, file_id, file_name,
\* file_size_bytes, ..), fileSize being the ContentLength of the object
BrowseHistoryRow(c, fileId, fileSize, t) ==
    [client_id |-> c, file_id |-> fileId, file_size_bytes |-> fileSize,
     downloaded_at |-> t]

\* fileSize is metadata.ContentLength, 0 when the HEAD request fails; s3ok is
\* the outcome of getSignedUrl, historyOk that of the INSERT, whose failure
\* the handler logs and ignores
browseGetDownloadUrl(c, filePath, fileSize, s3ok, historyOk) ==
    /\ Idle
    /\ IF client_storage_config[c] = "absent"
       THEN /\ Respond("browseGetDownloadUrl", c, fileSize, "NO_STORAGE_CONFIG")
            /\ UNCHANGED download_history
       ELSE IF ~s3ok
       THEN /\ Respond("browseGetDownloadUrl", c, fileSize, "DOWNLOAD_ERROR")
            /\ UNCHANGED download_history
       ELSE /\ IF historyOk
               THEN \E fileId \in BrowseFileIds(c, filePath) :
                        download_history' = download_history (+)
                            SetToBag({BrowseHistoryRow(c, fileId, fileSize, now)})
               ELSE UNCHANGED download_history
            /\ Respond("browseGetDownloadUrl", c, fileSize, "OK")
    /\ UNCHANGED <<clients, client_storage_config, files, egress_usage, alerts,
                   system_settings, activity_logs, now, RequestVars>>

-----------------------------------------------------------------------------
(* Handlers of the client controller, the monthly job, the administrator *)

markAlertRead(c, alertId) ==
    /\ Idle
    /\ IF alertId \in 1..Len(alerts) /\ alerts[alertId].client_id = c
       THEN /\ alerts' = [alerts EXCEPT ![alertId].is_read = TRUE]
            /\ Respond("markAlertRead", c, 0, "OK")
       ELSE /\ UNCHANGED alerts
            /\ Respond("markAlertRead", c, 0, "ALERT_NOT_FOUND")
    /\ UNCHANGED <<clients, client_storage_config, files, egress_usage,
                   system_settings, download_history, activity_logs, now,
                   RequestVars>>

\* INSERT INTO activity_logs (user_name, user_role, action, details)
ResetLogRow(t) == [action |-> "monthly_egress_reset", created_at |-> t]

\* cron.schedule('0 0 1 * *', CALL reset_monthly_egress()); the response
\* carries the month of the run
reset_monthly_egress ==
    /\ Idle
    /\ alerts' = ResetAlerts(alerts, now)
    /\ activity_logs' = Append(activity_logs, ResetLogRow(now))
    /\ Respond("reset_monthly_egress", "system", now, "OK")
    /\ UNCHANGED <<clients, client_storage_config, files, egress_usage,
                   system_settings, download_history, now, RequestVars>>

\* The administrator stores a new JSON value under block_downloads_on_overage
setBlockDownloads(text) ==
    /\ Idle
    /\ system_settings' = text
    /\ Respond("setBlockDownloads", "system", 0, "OK")
    /\ UNCHANGED <<clients, client_storage_config, files, egress_usage, alerts,
                   download_history, activity_logs, now, RequestVars>>

\* The calendar month of NOW() advances
Tick ==
    /\ now < MaxMonth
    /\ now' = now + 1
    /\ UNCHANGED <<clients, client_storage_config, files, egress_usage, alerts,
                   system_settings, download_history, activity_logs, handlers,
                   response>>

-----------------------------------------------------------------------------
(* The storage side: uploads, confirmations, deletions, administration *)

NoRequest == [h \in Handlers |-> [pc |-> "idle"]]

\* Two clients as createClient leaves them, with a quota of 1.00 GB and a free
\* egress limit of 1.00 GB, and the settings of the schema
Init ==
    /\ clients = [c \in ClientIds |->
            [status |-> "active", storage_quota_gb |-> 100, storage_used_gb |-> 0,
             egress_free_limit_gb |-> 100]]
    /\ client_storage_config = [c \in ClientIds |->
            IF c \in AdminTargets THEN "absent" ELSE "verified"]
    /\ files = <<>>
    /\ egress_usage = {}
    /\ alerts = <<>>
    /\ system_settings = "false"
    /\ download_history = EmptyBag
    /\ activity_logs = <<>>
    /\ now = 1
    /\ handlers = NoRequest
    /\ response = [op |-> "none", client_id |-> "system", arg |-> 0, code |-> "OK"]

Next ==
    \/ \E c \in ClientIds, n \in UploadNames :
            createFolder(c, n, NULL) /\ Len(files') <= MaxFiles
    \/ \E c \in ClientIds, n \in UploadNames, size \in UploadSizes, s3ok \in BOOLEAN :
            getUploadUrl(c, n, size, NULL, s3ok) /\ Len(files') <= MaxFiles
    \/ \E c \in ClientIds, f \in 1..MaxFiles, e \in Etags : confirmUpload(c, f, e)
    \/ \E c \in ClientIds, ids \in SUBSET (1..MaxFiles), s3ok \in BOOLEAN :
            deleteFiles(c, ids, s3ok)
    \/ \E c \in ClientIds, n \in UploadNames, s3ok \in BOOLEAN :
            deleteFile(c, <<n>>, s3ok)
    \/ \E c \in AdminTargets, st \in {"active", "suspended"} : toggleClientStatus(c, st)
    \/ \E c \in AdminTargets, v \in BOOLEAN : updateClient(c, NULL, NULL, TRUE, v)

Spec == Init /\ [][Next]_vars

(* Folders and the files below them: one client creates folders, uploads   *)
(* into them or beside them, confirms and deletes.                         *)
FolderClients == {"c2"}

NextFolders ==
    \/ \E c \in FolderClients, n \in UploadNames, p \in {NULL} \cup FileIds :
            createFolder(c, n, p) /\ Len(files') <= MaxFiles
    \/ \E c \in FolderClients, n \in UploadNames, size \in UploadSizes,
            p \in {NULL} \cup FileIds, s3ok \in BOOLEAN :
            getUploadUrl(c, n, size, p, s3ok) /\ Len(files') <= MaxFiles
    \/ \E c \in FolderClients, f \in 1..MaxFiles, e \in Etags : confirmUpload(c, f, e)
    \/ \E c \in FolderClients, ids \in SUBSET (1..MaxFiles), s3ok \in BOOLEAN :
            deleteFiles(c, ids, s3ok)

SpecFolders == Init /\ [][NextFolders]_vars

-----------------------------------------------------------------------------
(* The download side.  Both clients have been in use for a while: c1 has   *)
(* uploaded a (717 units) and b (51 units), downloaded a once and then      *)
(* deleted it; c2 has uploaded a (820 units) and downloaded it once, which  *)
(* took it to 80.08 % of its free egress and raised the warning at 80.      *)

FileRow(c, name, size, deleted) ==
    [client_id |-> c, name |-> name, size_bytes |-> size, type |-> "file",
     path |-> <<name>>, parent_id |-> NULL,
     s3_key |-> generateS3Key(c, <<name>>, name), s3_etag |-> 1,
     deleted_at |-> deleted]

Loaded(month) ==
    /\ files = <<FileRow("c1", "a", 717, 1), FileRow("c1", "b", 51, NULL),
                 FileRow("c2", "a", 820, NULL)>>
    /\ clients = [c \in ClientIds |->
            [status |-> "active", storage_quota_gb |-> 100,
             storage_used_gb |-> total_size_gb(files, c),
             egress_free_limit_gb |-> 100]]
    /\ client_storage_config = [c \in ClientIds |-> "verified"]
    /\ egress_usage =
            {[client_id |-> "c1", month_year |-> 1, egress_used_gb |-> ToEgressGb(717)],
             [client_id |-> "c2", month_year |-> 1, egress_used_gb |-> ToEgressGb(820)]}
    /\ alerts = <<NewAlert("c2", "egress_warning", 80, 1)>>
    /\ system_settings = "false"
    /\ download_history = SetToBag({HistoryRow("c1", 1, 1), HistoryRow("c2", 3, 1)})
    /\ activity_logs = <<>>
    /\ now = month
    /\ handlers = NoRequest
    /\ response = [op |-> "none", client_id |-> "system", arg |-> 0, code |-> "OK"]

InitLoaded == Loaded(1)

\* The bounds of a download: the alerts, the downloads and the egress the
\* model follows
DownloadBounded ==
    /\ Len(alerts') <= MaxAlerts
    /\ BagCardinality(download_history') <= MaxDownloads
    /\ \A r \in egress_usage' : r.egress_used_gb <= MaxEgress

(* Downloads and their alerts, one request at a time *)
NextAlerts ==
    \/ \E c \in AdminTargets, f \in 1..3, s3ok \in BOOLEAN :
            getDownloadUrl(c, f, s3ok) /\ DownloadBounded
    \/ \E c \in AdminTargets, a \in 1..MaxAlerts : markAlertRead(c, a)
    \/ reset_monthly_egress /\ Len(activity_logs') <= MaxResets
    \/ \E c \in AdminTargets, l \in LimitChoices : updateClient(c, NULL, l, FALSE, FALSE)
    \/ Tick

SpecAlerts == InitLoaded /\ [][NextAlerts]_vars

(* Downloads of both clients with every outcome of the calls the handler   *)
(* awaits, while the free limit of c1 is changed                            *)
NextDownloadErrors ==
    \/ \E c \in ClientIds, f \in 1..3, s3ok \in BOOLEAN, historyOk \in BOOLEAN :
            getDownloadUrlHistory(c, f, s3ok, historyOk) /\ DownloadBounded
    \/ \E c \in AdminTargets, l \in LimitChoices : updateClient(c, NULL, l, FALSE, FALSE)

SpecDownloadErrors == InitLoaded /\ [][NextDownloadErrors]_vars

(* The Access Gate of uploads and downloads under administration *)
NextGate ==
    \/ \E c \in AdminTargets, n \in UploadNames, size \in GateSizes, s3ok \in BOOLEAN :
            getUploadUrl(c, n, size, NULL, s3ok) /\ Len(files') <= 4
    \/ \E c \in AdminTargets, f \in 1..3, s3ok \in BOOLEAN :
            getDownloadUrl(c, f, s3ok) /\ DownloadBounded
    \/ \E c \in AdminTargets, st \in {"active", "suspended"} : toggleClientStatus(c, st)
    \/ \E c \in AdminTargets, l \in GateLimits : updateClient(c, NULL, l, FALSE, FALSE)
    \/ \E c \in AdminTargets, v \in BOOLEAN : updateClient(c, NULL, NULL, TRUE, v)
    \/ \E text \in JsonValues : setBlockDownloads(text)
    \/ Tick

SpecGate == InitLoaded /\ [][NextGate]_vars

\* The ContentLength values of the objects the model downloads through the
\* browse controller: the size of the live file of the loaded tables, and 0
ObjectSizes == {0, 51}

(* The two download endpoints under administration *)
NextBrowse ==
    \/ \E c \in AdminTargets, n \in {"a", "b"}, size \in ObjectSizes,
            s3ok \in BOOLEAN, historyOk \in BOOLEAN :
            /\ browseGetDownloadUrl(c, <<n>>, size, s3ok, historyOk)
            /\ BagCardinality(download_history') <= MaxBrowseDownloads
    \/ \E c \in AdminTargets, f \in 1..3, s3ok \in BOOLEAN :
            /\ getDownloadUrl(c, f, s3ok) /\ DownloadBounded
            /\ BagCardinality(download_history') <= MaxBrowseDownloads
    \/ \E c \in AdminTargets, st \in {"active", "suspended"} : toggleClientStatus(c, st)
    \/ \E c \in AdminTargets, l \in GateLimits : updateClient(c, NULL, l, FALSE, FALSE)
    \/ \E text \in JsonValues : setBlockDownloads(text)
    \/ Tick

SpecBrowse == InitLoaded /\ [][NextBrowse]_vars

(* The monthly job among downloads.  The tables are the loaded ones, and    *)
(* the alerts hold a storage_warning besides: the schema admits the kind    *)
(* and the dashboard of the administrator reads it.                         *)
InitReset ==
    /\ files = <<FileRow("c1", "a", 717, 1), FileRow("c1", "b", 51, NULL),
                 FileRow("c2", "a", 820, NULL)>>
    /\ clients = [c \in ClientIds |->
            [status |-> "active", storage_quota_gb |-> 100,
             storage_used_gb |-> total_size_gb(files, c),
             egress_free_limit_gb |-> 100]]
    /\ client_storage_config = [c \in ClientIds |-> "verified"]
    /\ egress_usage =
            {[client_id |-> "c1", month_year |-> 1, egress_used_gb |-> ToEgressGb(717)],
             [client_id |-> "c2", month_year |-> 1, egress_used_gb |-> ToEgressGb(820)]}
    /\ alerts = <<NewAlert("c2", "egress_warning", 80, 1),
                  NewAlert("c2", "storage_warning", 80, 1)>>
    /\ system_settings = "false"
    /\ download_history = SetToBag({HistoryRow("c1", 1, 1), HistoryRow("c2", 3, 1)})
    /\ activity_logs = <<>>
    /\ now = 1
    /\ handlers = NoRequest
    /\ response = [op |-> "none", client_id |-> "system", arg |-> 0, code |-> "OK"]

NextReset ==
    \/ \E c \in ClientIds, f \in 1..3, s3ok \in BOOLEAN :
            getDownloadUrl(c, f, s3ok) /\ DownloadBounded
    \/ reset_monthly_egress /\ Len(activity_logs') <= MaxResets
    \/ \E c \in AdminTargets, l \in GateLimits : updateClient(c, NULL, l, FALSE, FALSE)
    \/ \E text \in JsonValues : setBlockDownloads(text)
    \/ Tick

SpecReset == InitReset /\ [][NextReset]_vars

-----------------------------------------------------------------------------
(* getDownloadUrl of file.controller.js statement by statement, as one of   *)
(* the concurrent handlers runs it: every query is a step of its own, and   *)
(* so is every statement of record_egress (the connection is in autocommit).*)

InFlight(h, pc) == handlers[h].pc = pc

\* The first SELECT, the status check, the settings query, the limit check and
\* the signing of the URL
dlAuthorize(h, c, fileId, s3ok) ==
    /\ InFlight(h, "idle")
    /\ LET gate == DownloadGate(c, fileId)
       IN IF gate # "OK"
          THEN /\ Respond("getDownloadUrl", c, fileId, gate)
               /\ UNCHANGED handlers
          ELSE IF ~s3ok
          THEN /\ Respond("getDownloadUrl", c, fileId, "STORAGE_ERROR")
               /\ UNCHANGED handlers
          ELSE /\ handlers' = [handlers EXCEPT ![h] =
                      [pc |-> "upsert", client_id |-> c, file_id |-> fileId,
                       p_bytes |-> files[fileId].size_bytes, v_month_year |-> NULL,
                       v_current_egress |-> NULL, v_free_limit |-> NULL,
                       threshold |-> NULL]]
               /\ UNCHANGED response
    /\ UNCHANGED <<clients, client_storage_config, files, egress_usage, alerts,
                   system_settings, download_history, activity_logs, now>>

\* SET v_month_year, SET v_gb, INSERT .. ON DUPLICATE KEY UPDATE
recUpsert(h) ==
    /\ InFlight(h, "upsert")
    /\ egress_usage' = UpsertEgress(egress_usage, handlers[h].client_id, now,
                                    ToEgressGb(handlers[h].p_bytes))
    /\ handlers' = [handlers EXCEPT ![h].pc = "select", ![h].v_month_year = now]
    /\ UNCHANGED <<clients, client_storage_config, files, alerts, system_settings,
                   download_history, activity_logs, now, response>>

\* SELECT egress_used_gb, c.egress_free_limit_gb INTO v_current_egress, v_free_limit
recSelect(h) ==
    /\ InFlight(h, "select")
    /\ handlers' = [handlers EXCEPT
            ![h].pc = "check",
            ![h].v_current_egress =
                MonthEgress(egress_usage, handlers[h].client_id, handlers[h].v_month_year),
            ![h].v_free_limit = clients[handlers[h].client_id].egress_free_limit_gb]
    /\ UNCHANGED <<clients, client_storage_config, files, egress_usage, alerts,
                   system_settings, download_history, activity_logs, now,
                   response>>

\* SET v_usage_percent and the IF: the INSERT IGNORE of the first branch, or the
\* NOT EXISTS query of the second or third
recCheck(h) ==
    /\ InFlight(h, "check")
    /\ LET c == handlers[h].client_id
           v_usage_percent ==
                UsagePercent(handlers[h].v_current_egress, handlers[h].v_free_limit)
       IN IF v_usage_percent > PercentMax
          THEN /\ handlers' = [handlers EXCEPT ![h] = [pc |-> "idle"]]
               /\ Respond("getDownloadUrl", c, handlers[h].file_id, "INTERNAL_ERROR")
               /\ UNCHANGED alerts
          ELSE IF v_usage_percent >= 10000
          THEN /\ alerts' = InsertLimitAlert(alerts, c, now)
               /\ handlers' = [handlers EXCEPT ![h].pc = "history"]
               /\ UNCHANGED response
          ELSE IF v_usage_percent >= 9000
          THEN /\ handlers' = [handlers EXCEPT
                      ![h].pc = IF WarningExists(alerts, c, 90, now)
                                THEN "history" ELSE "insert",
                      ![h].threshold = 90]
               /\ UNCHANGED <<alerts, response>>
          ELSE IF v_usage_percent >= 8000
          THEN /\ handlers' = [handlers EXCEPT
                      ![h].pc = IF WarningExists(alerts, c, 80, now)
                                THEN "history" ELSE "insert",
                      ![h].threshold = 80]
               /\ UNCHANGED <<alerts, response>>
          ELSE /\ handlers' = [handlers EXCEPT ![h].pc = "history"]
               /\ UNCHANGED <<alerts, response>>
    /\ UNCHANGED <<clients, client_storage_config, files, egress_usage,
                   system_settings, download_history, activity_logs, now>>

\* INSERT INTO alerts .. 'egress_warning'
recInsert(h) ==
    /\ InFlight(h, "insert")
    /\ alerts' = Append(alerts, NewAlert(handlers[h].client_id, "egress_warning",
                                         handlers[h].threshold, now))
    /\ handlers' = [handlers EXCEPT ![h].pc = "history"]
    /\ UNCHANGED <<clients, client_storage_config, files, egress_usage,
                   system_settings, download_history, activity_logs, now,
                   response>>

\* INSERT INTO download_history, res.json
dlHistory(h) ==
    /\ InFlight(h, "history")
    /\ download_history' = download_history (+)
            SetToBag({HistoryRow(handlers[h].client_id, handlers[h].file_id, now)})
    /\ handlers' = [handlers EXCEPT ![h] = [pc |-> "idle"]]
    /\ Respond("getDownloadUrl", handlers[h].client_id, handlers[h].file_id, "OK")
    /\ UNCHANGED <<clients, client_storage_config, files, egress_usage, alerts,
                   system_settings, activity_logs, now>>

\* The downloads the model follows, those in flight included
Started == BagCardinality(download_history)
              + Cardinality({h \in Handlers : ~InFlight(h, "idle")})

\* A new month has begun: no egress has been recorded in it yet
InitConcurrent == Loaded(2)

NextConcurrent ==
    \/ \E h \in Handlers, c \in ClientIds, f \in 2..3, s3ok \in BOOLEAN :
            Started < MaxDownloads /\ dlAuthorize(h, c, f, s3ok)
    \/ \E h \in Handlers : recUpsert(h)
    \/ \E h \in Handlers : recSelect(h)
    \/ \E h \in Handlers : recCheck(h) /\ Len(alerts') <= MaxAlerts
    \/ \E h \in Handlers : recInsert(h) /\ Len(alerts') <= MaxAlerts
    \/ \E h \in Handlers : dlHistory(h)

SpecConcurrent == InitConcurrent /\ [][NextConcurrent]_vars

\* The same handlers late in the first month, when c1 is at 70.02 % of its
\* free egress and each download of its file b adds 4.98 %
SpecRace == InitLoaded /\ [][NextConcurrent]_vars

-----------------------------------------------------------------------------
(* reset_monthly_egress statement by statement, on a connection of its own, *)
(* while a getDownloadUrl is in flight on another.                          *)

DownloadHandlers == {1}
JobHandlers == {2}

\* DELETE FROM alerts WHERE alert_type IN (..) AND created_at < first of month
resetDelete(h) ==
    /\ InFlight(h, "idle")
    /\ alerts' = ResetAlerts(alerts, now)
    /\ handlers' = [handlers EXCEPT ![h] = [pc |-> "log"]]
    /\ UNCHANGED <<clients, client_storage_config, files, egress_usage,
                   system_settings, download_history, activity_logs, now,
                   response>>

\* INSERT INTO activity_logs, and the procedure returns
resetLog(h) ==
    /\ InFlight(h, "log")
    /\ activity_logs' = Append(activity_logs, ResetLogRow(now))
    /\ handlers' = [handlers EXCEPT ![h] = [pc |-> "idle"]]
    /\ Respond("reset_monthly_egress", "system", now, "OK")
    /\ UNCHANGED <<clients, client_storage_config, files, egress_usage, alerts,
                   system_settings, download_history, now>>

NextResetLive ==
    \/ \E h \in DownloadHandlers, c \in ClientIds, f \in 2..3, s3ok \in BOOLEAN :
            /\ BagCardinality(download_history) < MaxDownloads
            /\ dlAuthorize(h, c, f, s3ok)
    \/ \E h \in DownloadHandlers : recUpsert(h)
    \/ \E h \in DownloadHandlers : recSelect(h)
    \/ \E h \in DownloadHandlers : recCheck(h) /\ Len(alerts') <= MaxAlerts
    \/ \E h \in DownloadHandlers : recInsert(h) /\ Len(alerts') <= MaxAlerts
    \/ \E h \in DownloadHandlers : dlHistory(h)
    \/ \E h \in JobHandlers : Len(activity_logs) < MaxResets /\ resetDelete(h)
    \/ \E h \in JobHandlers : resetLog(h)
    \/ Tick

SpecResetLive == InitReset /\ [][NextResetLive]_vars

-----------------------------------------------------------------------------
(* recalculate_client_storage statement by statement, as the concurrent     *)
(* handlers call it (confirmUpload, deleteFiles), while no files row        *)
(* changes: the SELECT .. INTO and the UPDATE are steps of their own.       *)

\* A deviation: UPDATE clients SET storage_used_gb = storage_used_gb +
\* total_size_gb
StoreUsageAdded(cl, c, total) ==
    [cl EXCEPT ![c].storage_used_gb = @ + total]

\* UPDATE clients SET storage_used_gb = total_size_gb WHERE id = p_client_id
StoreUsage(cl, c, total) ==
    [cl EXCEPT ![c].storage_used_gb = total]

\* SELECT COALESCE(SUM(size_bytes), 0) / (1024 * 1024 * 1024) INTO total_size_gb
rcSelect(h, c) ==
    /\ InFlight(h, "idle")
    /\ handlers' = [handlers EXCEPT ![h] =
            [pc |-> "update", client_id |-> c,
             total_size_gb |-> total_size_gb(files, c)]]
    /\ UNCHANGED <<clients, client_storage_config, files, egress_usage, alerts,
                   system_settings, download_history, activity_logs, now,
                   response>>

\* UPDATE clients, and the procedure returns
rcUpdate(h) ==
    /\ InFlight(h, "update")
    /\ clients' = StoreUsage(clients, handlers[h].client_id, handlers[h].total_size_gb)
    /\ handlers' = [handlers EXCEPT ![h] = [pc |-> "idle"]]
    /\ Respond("recalculate_client_storage", handlers[h].client_id, 0, "OK")
    /\ UNCHANGED <<client_storage_config, files, egress_usage, alerts,
                   system_settings, download_history, activity_logs, now>>

\* The values of storage_used_gb an earlier recalculation of the client can
\* have left: the GB of any of its files
RECURSIVE SumOf(_)
SumOf(sizes) ==
    IF sizes = {} THEN 0
    ELSE LET x == CHOOSE y \in sizes : TRUE IN x + SumOf(sizes \ {x})

CachedUsages(c) ==
    {ToStorageGb(SumOf(sizes)) :
        sizes \in SUBSET (IF c = "c1" THEN {717, 51} ELSE {820})}

\* The loaded files, each deleted or not, and a cached usage of each client
\* that is up to date or stale
InitRecalculate ==
    /\ \E d1 \in {NULL, 1}, d2 \in {NULL, 1}, d3 \in {NULL, 1} :
            files = <<FileRow("c1", "a", 717, d1), FileRow("c1", "b", 51, d2),
                      FileRow("c2", "a", 820, d3)>>
    /\ \E u1 \in CachedUsages("c1"), u2 \in CachedUsages("c2") :
            clients = [c \in ClientIds |->
                [status |-> "active", storage_quota_gb |-> 100,
                 storage_used_gb |-> IF c = "c1" THEN u1 ELSE u2,
                 egress_free_limit_gb |-> 100]]
    /\ client_storage_config = [c \in ClientIds |-> "verified"]
    /\ egress_usage = {}
    /\ alerts = <<>>
    /\ system_settings = "false"
    /\ download_history = EmptyBag
    /\ activity_logs = <<>>
    /\ now = 2
    /\ handlers = NoRequest
    /\ response = [op |-> "none", client_id |-> "system", arg |-> 0, code |-> "OK"]

NextRecalculate ==
    \/ \E h \in Handlers, c \in ClientIds : rcSelect(h, c)
    \/ \E h \in Handlers : rcUpdate(h)

SpecRecalculate == InitRecalculate /\ [][NextRecalculate]_vars

-----------------------------------------------------------------------------
(* Properties of the storage side, checked under Spec *)

\* The bytes of the rows of a client that are files and not deleted
LiveFileBytes(c) ==
    SumSizes(files, {i \in FileIds : /\ files[i].client_id = c
                                     /\ files[i].type = "file"
                                     /\ files[i].deleted_at = NULL})

\* gb is bytes / 2^30 kept to two decimal places: within half a hundredth
TwoDecimalsOf(gb, bytes) ==
    /\ 2 * ((gb * BytesPerGB) - (bytes * 100)) <= BytesPerGB
    /\ 2 * ((bytes * 100) - (gb * BytesPerGB)) <= BytesPerGB

\* C1: when recalculate_client_storage has run for a client (at the end of
\* confirmUpload and of deleteFiles), the client's storage_used_gb is the sum
\* of size_bytes of exactly its own rows of type file with deleted_at null,
\* divided by 2^30 and kept to two decimals; rows of other clients and folders
\* add nothing, and it is 0.00 once no such row is left.
C1_RecalculatedUsage ==
    (response.op \in {"confirmUpload", "deleteFiles"} /\ response.code = "OK") =>
        LET c == response.client_id
        IN /\ TwoDecimalsOf(clients[c].storage_used_gb, LiveFileBytes(c))
           /\ LiveFileBytes(c) = 0 => clients[c].storage_used_gb = 0

\* A client has deleted its only file, of a positive size, while the other
\* client still holds a file: the first is at 0.00, the second is not
C1_Witness ==
    /\ response.op = "deleteFiles" /\ response.code = "OK"
    /\ \E i \in FileIds : /\ files[i].client_id = response.client_id
                          /\ files[i].type = "file"
                          /\ files[i].size_bytes > 0
                          /\ files[i].deleted_at # NULL
    /\ LiveFileBytes(response.client_id) = 0
    /\ clients[response.client_id].storage_used_gb = 0
    /\ \E d \in ClientIds \ {response.client_id} :
            LiveFileBytes(d) > 0 /\ clients[d].storage_used_gb > 0

\* The bytes of the rows of a client that are files, confirmed (confirmUpload
\* has stored their etag) and not deleted
ConfirmedLiveBytes(c) ==
    SumSizes(files, {i \in FileIds : /\ files[i].client_id = c
                                     /\ files[i].type = "file"
                                     /\ files[i].s3_etag # NULL
                                     /\ files[i].deleted_at = NULL})

\* C3: storage_used_gb holds no bytes of a file whose upload was initiated but
\* never confirmed, and no bytes of a soft-deleted file: it never exceeds the
\* confirmed, not deleted bytes of the client (to two decimals).
C3_OnlyConfirmedLiveCounted ==
    \A c \in ClientIds :
        2 * ((clients[c].storage_used_gb * BytesPerGB) - (ConfirmedLiveBytes(c) * 100))
            <= BytesPerGB

\* C7: getUploadUrl answers ACCOUNT_SUSPENDED whenever the client is not
\* active, otherwise STORAGE_NOT_CONFIGURED whenever it has no verified storage
\* configuration, otherwise QUOTA_EXCEEDED whenever storage_used_gb plus
\* fileSize / 2^30 exceeds storage_quota_gb, and in every other case lets the
\* request through (OK, unless the storage service fails to sign the URL).
C7_UploadPrecedence ==
    response.op = "getUploadUrl" =>
        LET c == response.client_id
            suspended == clients[c].status # "active"
            unconfigured == client_storage_config[c] # "verified"
            over == (clients[c].storage_used_gb * BytesPerGB) + (response.arg * 100)
                        > clients[c].storage_quota_gb * BytesPerGB
        IN /\ suspended => response.code = "ACCOUNT_SUSPENDED"
           /\ (~suspended /\ unconfigured) => response.code = "STORAGE_NOT_CONFIGURED"
           /\ (~suspended /\ ~unconfigured /\ over) => response.code = "QUOTA_EXCEEDED"
           /\ (~suspended /\ ~unconfigured /\ ~over) =>
                    response.code \in {"OK", "STORAGE_ERROR"}

\* A request that meets all three conditions at once is answered with the first
C7_Witness ==
    /\ response.op = "getUploadUrl" /\ response.code = "ACCOUNT_SUSPENDED"
    /\ client_storage_config[response.client_id] # "verified"
    /\ (clients[response.client_id].storage_used_gb * BytesPerGB) + (response.arg * 100)
            > clients[response.client_id].storage_quota_gb * BytesPerGB

\* The rows with a storage object that this step soft-deletes
NewlyDeleted(old, new) ==
    {i \in 1..Len(old) : /\ old[i].deleted_at = NULL
                          /\ new[i].deleted_at # NULL
                          /\ old[i].s3_key # <<>>}

\* C18: when the deletion of an object from the external storage fails during
\* a delete request (deleteFiles, deleteFile of the browse controller), no
\* files row of the request ends up soft-deleted and storage_used_gb is
\* unchanged; conversely a files row is soft-deleted only when its storage
\* object was deleted successfully, which a request does only for rows of its
\* caller.
C18_SoftDeleteFollowsStorage ==
    [][/\ (/\ response'.op \in {"deleteFiles", "deleteFile"}
           /\ response'.code \in {"STORAGE_ERROR", "DELETE_ERROR"}) =>
                (files' = files /\ clients' = clients)
       /\ \A i \in NewlyDeleted(files, files') :
              /\ response'.op \in {"deleteFiles", "deleteFile"}
              /\ response'.code = "OK"
              /\ files[i].client_id = response'.client_id
    ]_vars

\* The clients that own a row this step soft-deletes
AffectedClients(old, new) ==
    {old[i].client_id : i \in {j \in 1..Len(old) : /\ old[j].deleted_at = NULL
                                                    /\ new[j].deleted_at # NULL}}

\* C19: after every completed deletion, by id list (deleteFiles) or by path
\* (deleteFile of the browse controller), recalculate_client_storage has run
\* for each client that owns an affected file: its storage_used_gb is the GB
\* sum of its remaining rows of type file that are not deleted.
C19_DeletionRecalculates ==
    [][(response'.op \in {"deleteFiles", "deleteFile"} /\ response'.code = "OK") =>
        \A c \in AffectedClients(files, files') :
            TwoDecimalsOf(clients'[c].storage_used_gb, LiveFileBytes(c)')
    ]_vars

\* C21: the storage thresholds are evaluated like the egress thresholds:
\* after a confirmUpload whose recalculation brings storage_used_gb /
\* storage_quota_gb * 100 to 80 or more, a storage_warning alert (threshold 80
\* or 90) or a storage_limit alert (threshold 100) of the client exists.
C21_StorageThresholdAlert ==
    (/\ response.op = "confirmUpload" /\ response.code = "OK"
     /\ clients[response.client_id].storage_used_gb * 100
            >= 80 * clients[response.client_id].storage_quota_gb) =>
        \E i \in 1..Len(alerts) :
            /\ alerts[i].client_id = response.client_id
            /\ alerts[i].alert_type \in {"storage_warning", "storage_limit"}
            /\ alerts[i].threshold_percent \in {80, 90, 100}

\* C23: the storage keys are collision-free within a client: after any
\* sequence of upload initiations no two distinct rows of type file of the
\* same client carry the same s3_key.
C23_KeysCollisionFree ==
    \A i \in FileIds, j \in FileIds :
        (/\ i # j
         /\ files[i].type = "file" /\ files[j].type = "file"
         /\ files[i].client_id = files[j].client_id) =>
            files[i].s3_key # files[j].s3_key

\* C27: tenant isolation of deletion: deleteFiles soft-deletes only rows of
\* the caller's client; whatever ids of another client's files the request
\* lists beside the caller's own, the other client's rows keep deleted_at null
\* and its storage_used_gb is unchanged.
C27_DeletionIsolated ==
    [][response'.op = "deleteFiles" =>
        /\ \A i \in FileIds :
                files[i].client_id # response'.client_id => files'[i] = files[i]
        /\ \A c \in ClientIds \ {response'.client_id} : clients'[c] = clients[c]
    ]_vars

\* C28: the quota is never overshot: with storage_quota_gb left unchanged,
\* after any sequence of getUploadUrl, confirmUpload and delete operations the
\* cached storage_used_gb of a client is at most its storage_quota_gb; two
\* initiated uploads that fit the remaining quota one by one but not together
\* are never both confirmed into the cached usage.
C28_QuotaNeverOvershot ==
    \A c \in ClientIds : clients[c].storage_used_gb <= clients[c].storage_quota_gb

-----------------------------------------------------------------------------
(* Properties of concurrent downloads, checked under SpecConcurrent *)

\* The GB of the downloads of a client and month that download_history holds
RECURSIVE HistoryGb(_, _, _)
HistoryGb(rows, c, m) ==
    IF rows = {} THEN 0
    ELSE LET r == CHOOSE x \in rows : TRUE
         IN (IF r.client_id = c /\ r.downloaded_at = m
             THEN CopiesIn(r, download_history) * ToEgressGb(r.file_size_bytes)
             ELSE 0) + HistoryGb(rows \ {r}, c, m)

\* The GB of the downloads of a client and month that are in flight and past
\* their upsert
RECURSIVE InFlightGb(_, _, _)
InFlightGb(hs, c, m) ==
    IF hs = {} THEN 0
    ELSE LET h == CHOOSE x \in hs : TRUE
         IN (IF /\ handlers[h].pc \in {"select", "check", "insert", "history"}
                /\ handlers[h].client_id = c
                /\ handlers[h].v_month_year = m
             THEN ToEgressGb(handlers[h].p_bytes) ELSE 0)
            + InFlightGb(hs \ {h}, c, m)

EgressRows(c, m) == {r \in egress_usage : r.client_id = c /\ r.month_year = m}

\* C16: in every reachable state there is at most one egress row per client
\* and calendar month, also while the first two downloads of a client in a new
\* month run concurrently: one inserts the row, the other adds to it, and none
\* of the two is answered with an error.
C16_OneRowPerClientMonth ==
    /\ \A c \in ClientIds, m \in Months : Cardinality(EgressRows(c, m)) <= 1
    /\ response.op = "getDownloadUrl" =>
            response.code \in {"OK", "FILE_NOT_FOUND", "STORAGE_ERROR"}

\* The first two downloads of a client in a new month are both past their
\* upsert, none has completed: the month has one row, which holds both
C16_Witness ==
    \E c \in ClientIds :
        /\ \A h \in Handlers : /\ handlers[h].pc \in {"select", "check"}
                                /\ handlers[h].client_id = c
        /\ \A r \in BagToSet(download_history) :
                ~(r.client_id = c /\ r.downloaded_at = now)
        /\ Cardinality(EgressRows(c, now)) = 1
        /\ MonthEgress(egress_usage, c, now) = InFlightGb(Handlers, c, now)

-----------------------------------------------------------------------------
(* Properties of the alerts of sequential downloads, checked under SpecAlerts *)

AlertIds == 1..Len(alerts)

\* The alerts of a client, kind and threshold created in a month
AlertsOf(c, type, threshold, m) ==
    {i \in AlertIds : /\ alerts[i].client_id = c
                      /\ alerts[i].alert_type = type
                      /\ alerts[i].threshold_percent = threshold
                      /\ alerts[i].created_at = m}

\* C4: with the record_egress calls run one at a time, and whatever alerts the
\* user marks read in between, there is at most one egress_warning per client,
\* threshold (80, 90) and month of creation: a warning is inserted only if none
\* of that client and threshold has been created since the first of the month.
C4_OneWarningPerMonth ==
    \A c \in ClientIds, threshold \in {80, 90}, m \in Months :
        Cardinality(AlertsOf(c, "egress_warning", threshold, m)) <= 1

\* An egress (in ten-thousandths of a GB), as a percentage of a free limit (in
\* hundredths) kept to two decimals, reaches p percent
Reaches(egress, limit, p) == (200 * egress) + limit >= 200 * p * limit

\* The same of the egress of a client in the current month
ReachesPercent(c, p) ==
    Reaches(MonthEgress(egress_usage, c, now), clients[c].egress_free_limit_gb, p)

\* The client has read its warning at 90 of this month and has downloaded
\* again, staying between 90 and 100 percent: the warning is still the only one
C4_Witness ==
    /\ response.op = "getDownloadUrl" /\ response.code = "OK"
    /\ ReachesPercent(response.client_id, 90) /\ ~ReachesPercent(response.client_id, 100)
    /\ \E i \in AlertsOf(response.client_id, "egress_warning", 90, now) :
            alerts[i].is_read
    /\ Cardinality(AlertsOf(response.client_id, "egress_warning", 90, now)) = 1

Added(old, new, a) == new = Append(old, a)

\* C6: a record_egress call adds at most one alert, of the caller, the one of
\* the highest threshold the usage percentage meets, in the order 100, 90, 80:
\* egress_limit at 100 when it is 100 or more, else nothing but egress_warning
\* at 90 when it is 90 or more, else nothing but egress_warning at 80 when it is
\* 80 or more, else nothing; a call between 90 and 100 never adds one at 80.
C6_FirstMatchingThreshold ==
    [][(response'.op = "getDownloadUrl" /\ now' = now
            /\ response'.code \in {"OK", "INTERNAL_ERROR"}) =>
        LET c == response'.client_id
            egress == MonthEgress(egress_usage', c, now)
            limit == clients[c].egress_free_limit_gb
            kind == IF Reaches(egress, limit, 100) THEN <<"egress_limit", 100>>
                    ELSE IF Reaches(egress, limit, 90) THEN <<"egress_warning", 90>>
                    ELSE IF Reaches(egress, limit, 80) THEN <<"egress_warning", 80>>
                    ELSE <<"none", 0>>
            prescribed == [client_id |-> c, alert_type |-> kind[1],
                           threshold_percent |-> kind[2], is_read |-> FALSE,
                           created_at |-> now]
        IN /\ alerts' = alerts \/ (kind[1] # "none" /\ Added(alerts, alerts', prescribed))
           /\ (kind[1] = "egress_limit" /\ response'.code = "OK") => alerts' # alerts
    ]_vars

\* A download has taken the client between 90 and 100 percent and has raised
\* the warning at 90, while no warning at 80 of the client exists
C6_Witness ==
    /\ response.op = "getDownloadUrl" /\ response.code = "OK"
    /\ ReachesPercent(response.client_id, 90) /\ ~ReachesPercent(response.client_id, 100)
    /\ Len(alerts) > 0
    /\ alerts[Len(alerts)] = NewAlert(response.client_id, "egress_warning", 90, now)
    /\ \A m \in Months : AlertsOf(response.client_id, "egress_warning", 80, m) = {}

\* C22: a failure while the thresholds are evaluated or an alert is inserted
\* never blocks the download that triggered it: whenever a getDownloadUrl has
\* recorded its egress, the increment stays and the request returns its URL.
C22_AlertFailureNeverBlocks ==
    [][(/\ response'.op = "getDownloadUrl" /\ now' = now
        /\ egress_usage' # egress_usage) =>
        /\ response'.code = "OK"
        /\ MonthEgress(egress_usage', response'.client_id, now)
                = MonthEgress(egress_usage, response'.client_id, now)
                    + ToEgressGb(files[response'.arg].size_bytes)
    ]_vars

\* C30: record_egress computes the usage percentage inside its declared
\* range: for every current-month egress a download reaches and every positive
\* free limit, usage of ten times the limit or more included, egress / limit *
\* 100 is at most 999.99, so the call completes and, at 100 % or more, adds
\* the egress_limit alert.
C30_PercentFits ==
    [][(/\ response'.op = "getDownloadUrl" /\ now' = now
        /\ egress_usage' # egress_usage) =>
        LET c == response'.client_id
            pct == UsagePercent(MonthEgress(egress_usage', c, now),
                                clients[c].egress_free_limit_gb)
        IN /\ pct <= PercentMax
           /\ pct >= 10000 => alerts' = InsertLimitAlert(alerts, c, now)
    ]_vars

-----------------------------------------------------------------------------
(* Properties of the Access Gate, checked under SpecGate *)

Tables == <<clients, client_storage_config, files, egress_usage, alerts,
            system_settings, download_history>>

\* C8: a request the Access Gate rejects changes no accounting state: a
\* getUploadUrl answered ACCOUNT_SUSPENDED, STORAGE_NOT_CONFIGURED or
\* QUOTA_EXCEEDED adds no files row and leaves storage_used_gb as it was, a
\* getDownloadUrl answered ACCOUNT_SUSPENDED or DOWNLOAD_LIMIT_EXCEEDED leaves
\* the egress rows and the alerts as they were; no table changes at all.
C8_RejectionChangesNothing ==
    [][(now' = now /\
          \/ /\ response'.op = "getUploadUrl"
             /\ response'.code \in {"ACCOUNT_SUSPENDED", "STORAGE_NOT_CONFIGURED",
                                    "QUOTA_EXCEEDED"}
          \/ /\ response'.op = "getDownloadUrl"
             /\ response'.code \in {"ACCOUNT_SUSPENDED", "DOWNLOAD_LIMIT_EXCEEDED"})
        => UNCHANGED Tables
    ]_vars

\* A download of an active client at or over its limit has been rejected
C8_Witness ==
    /\ response.op = "getDownloadUrl" /\ response.code = "DOWNLOAD_LIMIT_EXCEEDED"
    /\ clients[response.client_id].status = "active"
    /\ OverLimit(response.client_id)

\* The stored setting has a true value: the JSON value true, or the JSON
\* string "true"
SettingTrue == system_settings \in {"true", "\"true\""}

\* C9: a getDownloadUrl for a file of the caller answers ACCOUNT_SUSPENDED when
\* the client is not active, and otherwise DOWNLOAD_LIMIT_EXCEEDED exactly when
\* the setting block_downloads_on_overage is true and the egress of the month
\* is at or over egress_free_limit_gb, the setting being the one stored when
\* the request is decided.
C9_DownloadDecision ==
    [][(response'.op = "getDownloadUrl" /\ now' = now
            /\ DownloadableFile(response'.client_id, response'.arg)) =>
        LET c == response'.client_id
        IN IF clients[c].status # "active"
           THEN response'.code = "ACCOUNT_SUSPENDED"
           ELSE response'.code = "DOWNLOAD_LIMIT_EXCEEDED"
                    <=> (SettingTrue /\ OverLimit(c))
    ]_vars

\* C10: once the usage of a client is at 100 percent or more and the setting is
\* true, every getDownloadUrl of the client (active, for a file of its own)
\* answers DOWNLOAD_LIMIT_EXCEEDED and records no egress.
C10_BlockedWhileOver ==
    [][(/\ response'.op = "getDownloadUrl" /\ now' = now
        /\ DownloadableFile(response'.client_id, response'.arg)
        /\ clients[response'.client_id].status = "active"
        /\ SettingTrue
        /\ ReachesPercent(response'.client_id, 100))
        => /\ response'.code = "DOWNLOAD_LIMIT_EXCEEDED"
           /\ UNCHANGED <<egress_usage, alerts, download_history>>
    ]_vars

\* C17: when the signing of the presigned URL fails in getUploadUrl or in
\* getDownloadUrl, nothing of the accounting changes: no files row is created,
\* storage_used_gb and the egress of the month keep their values, and no alert
\* and no download_history row is added.
C17_SigningFailureChangesNothing ==
    [][(/\ response'.op \in {"getUploadUrl", "getDownloadUrl"}
        /\ response'.code = "STORAGE_ERROR"
        /\ now' = now) =>
        /\ Len(files') = Len(files)
        /\ \A c \in ClientIds :
                /\ clients'[c].storage_used_gb = clients[c].storage_used_gb
                /\ MonthEgress(egress_usage', c, now) = MonthEgress(egress_usage, c, now)
        /\ alerts' = alerts
        /\ download_history' = download_history
        /\ UNCHANGED Tables
    ]_vars

\* An upload of a client with stored files, which the Access Gate lets
\* through, has failed at the signing of its URL
C17_Witness ==
    /\ response.op = "getUploadUrl" /\ response.code = "STORAGE_ERROR"
    /\ UploadGate(response.client_id, response.arg) = "OK"
    /\ clients[response.client_id].storage_used_gb > 0

-----------------------------------------------------------------------------
(* Properties of the two download endpoints, checked under SpecBrowse *)

\* A presigned download URL has been issued by this step
UrlIssued(resp) ==
    /\ resp.op \in {"getDownloadUrl", "browseGetDownloadUrl"}
    /\ resp.code = "OK"

\* C11: no download URL is issued without the Access Gate having passed:
\* through either download endpoint (files/:fileId/download-url and
\* browse/download), a client that is not active, or whose egress of the month
\* is at or over its free limit while block_downloads_on_overage is true, gets
\* no presigned download URL.
C11_NoUrlWithoutGate ==
    [][(UrlIssued(response') /\ now' = now) =>
        /\ clients[response'.client_id].status = "active"
        /\ ~(SettingTrue /\ OverLimit(response'.client_id))
    ]_vars

\* C12: every presigned download URL issued for a file of size s, through
\* either download endpoint, is followed within the same request by
\* record_egress(client, s): the egress of the client's current month grows by
\* s / 2^30 GB (to four decimals).
C12_IssuedUrlRecordsEgress ==
    [][(UrlIssued(response') /\ now' = now) =>
        LET c == response'.client_id
            s == IF response'.op = "getDownloadUrl"
                 THEN files[response'.arg].size_bytes ELSE response'.arg
        IN MonthEgress(egress_usage', c, now)
                = MonthEgress(egress_usage, c, now) + ToEgressGb(s)
    ]_vars

-----------------------------------------------------------------------------
(* Properties of the monthly job, checked under SpecReset *)

\* The job has run in this step
ResetRuns(resp, t) == resp.op = "reset_monthly_egress" /\ resp.arg = t

\* The alerts of the kinds the job clears, created before month t
OldEgressAlerts(rows, t) ==
    {i \in 1..Len(rows) : /\ rows[i].alert_type \in {"egress_warning", "egress_limit"}
                           /\ rows[i].created_at < t}

\* kept is rows without the rows at the indices of gone, in the same order
RECURSIVE Without(_, _)
Without(rows, gone) ==
    IF rows = <<>> THEN <<>>
    ELSE LET rest == Without(SubSeq(rows, 1, Len(rows) - 1), gone)
         IN IF Len(rows) \in gone THEN rest ELSE Append(rest, rows[Len(rows)])

\* C13: reset_monthly_egress deletes exactly the alerts of kind egress_warning
\* or egress_limit created before the first instant of the current month:
\* every alert created in the current month and every storage_warning or
\* storage_limit alert of any age remains, unchanged.
C13_ResetDeletesOldEgressAlerts ==
    [][(ResetRuns(response', now) /\ now' = now /\ activity_logs' # activity_logs) =>
        alerts' = Without(alerts, OldEgressAlerts(alerts, now))
    ]_vars

\* The job has run in the second month and has left a storage_warning of the
\* first month and an egress alert of the second, and no egress alert of the
\* first month
C13_Witness ==
    /\ ResetRuns(response, now) /\ now = 2
    /\ \E i \in AlertIds : /\ alerts[i].alert_type = "storage_warning"
                            /\ alerts[i].created_at = 1
    /\ \E i \in AlertIds : /\ alerts[i].alert_type \in {"egress_warning", "egress_limit"}
                            /\ alerts[i].created_at = 2
    /\ OldEgressAlerts(alerts, now) = {}
    /\ Len(alerts) < MaxAlerts

\* C14, as stated: a second run of reset_monthly_egress right after a first
\* is a no-op, it deletes nothing and leaves the persisted state as the first
\* run left it.
C14_SecondResetNoOp ==
    [][(ResetRuns(response, now) /\ ResetRuns(response', now) /\ now' = now) =>
        UNCHANGED <<Tables, activity_logs>>
    ]_vars

\* C14, amended: a second run of reset_monthly_egress right after a first
\* deletes no alert and leaves the clients, the storage configurations, the
\* files, the egress rows, the alerts, the settings and the download history
\* as the first run left them; it adds one more monthly_egress_reset row to
\* activity_logs.
C14_SecondResetKeepsTables ==
    [][(ResetRuns(response, now) /\ ResetRuns(response', now) /\ now' = now) =>
        /\ UNCHANGED Tables
        /\ activity_logs' = Append(activity_logs, ResetLogRow(now))
    ]_vars

\* The job has run twice in the second month, with alerts left that it keeps
C14_Witness ==
    /\ ResetRuns(response, now) /\ now = 2
    /\ Len(activity_logs) = 2
    /\ \A i \in 1..2 : activity_logs[i] = ResetLogRow(now)
    /\ OldEgressAlerts(alerts, now) = {}
    /\ \E i \in AlertIds : alerts[i].alert_type = "egress_warning"

\* C15: the egress history is retained.  A record_egress call changes only
\* the egress row of its client and the current month, reset_monthly_egress
\* and every other request change no egress row, so the row of every past
\* (client, month) keeps its value; and only the row of the current month
\* enters the download-limit decision: a download is answered
\* DOWNLOAD_LIMIT_EXCEEDED only when the egress of the current month is at or
\* over the limit, whatever the months before held.
C15_EgressHistoryRetained ==
    [][/\ \A r \in egress_usage \cup egress_usage' :
              (r \in egress_usage /\ r \in egress_usage')
              \/ /\ response'.op = "getDownloadUrl"
                 /\ r.client_id = response'.client_id
                 /\ r.month_year = now
                 /\ now' = now
       /\ (response'.op = "getDownloadUrl" /\ now' = now
               /\ response'.code = "DOWNLOAD_LIMIT_EXCEEDED") =>
              MonthEgress(egress_usage, response'.client_id, now)
                  >= clients[response'.client_id].egress_free_limit_gb * 100
    ]_vars

\* A client that ended the first month over its limit has downloaded in the
\* second month, after the job ran, with the setting the handler honours: the
\* row of the first month still holds its overage
C15_Witness ==
    /\ response.op = "getDownloadUrl" /\ response.code = "OK" /\ now = 2
    /\ blockOnOverage
    /\ activity_logs # <<>>
    /\ MonthEgress(egress_usage, response.client_id, 1)
            >= clients[response.client_id].egress_free_limit_gb * 100
    /\ MonthEgress(egress_usage, response.client_id, 2) > 0

-----------------------------------------------------------------------------
(* Properties of concurrent recalculations, checked under SpecRecalculate *)

\* C20: recalculate_client_storage is idempotent and order-independent: with
\* no files row changing, every call for a client, alone, after another or
\* interleaved with another, leaves storage_used_gb at the value of a single
\* call, the GB of the client's live files, and once a call has left that
\* value no later call changes it.
C20_RecalculateConverges ==
    [][\A c \in ClientIds :
        /\ (response'.op = "recalculate_client_storage" /\ response'.client_id = c
                /\ handlers' # handlers) =>
                clients'[c].storage_used_gb = total_size_gb(files, c)
        /\ clients[c].storage_used_gb = total_size_gb(files, c) =>
                clients'[c].storage_used_gb = total_size_gb(files, c)
    ]_vars

\* One call for a client with live files has completed while another call for
\* the same client is between its SELECT and its UPDATE
C20_Witness ==
    \E c \in ClientIds :
        /\ response.op = "recalculate_client_storage" /\ response.client_id = c
        /\ \E h \in Handlers : handlers[h].pc = "update" /\ handlers[h].client_id = c
        /\ total_size_gb(files, c) > 0
        /\ clients[c].storage_used_gb = total_size_gb(files, c)

-----------------------------------------------------------------------------
(* Properties of folders, checked under SpecFolders *)

\* The rows directly below a row
ChildrenOf(rows, i) == {j \in 1..Len(rows) : rows[j].parent_id = i}

\* C24: deleting a folder cascades: after a folder is deleted through
\* deleteFiles, every row below it is soft-deleted too, and after the
\* recalculation none of their bytes count toward storage_used_gb.
C24_FolderDeleteCascades ==
    [][(response'.op = "deleteFiles" /\ response'.code = "OK") =>
        \A i \in FileIds :
            (/\ files[i].type = "folder"
             /\ files[i].deleted_at = NULL
             /\ files'[i].deleted_at # NULL) =>
                \A j \in ChildrenOf(files, i) : files'[j].deleted_at # NULL
    ]_vars

-----------------------------------------------------------------------------
(* Properties of concurrent downloads at the thresholds, checked under      *)
(* SpecRace                                                                 *)

-----------------------------------------------------------------------------
(* Properties of the monthly job alongside a download, checked under       *)
(* SpecResetLive                                                            *)

\* C26: the monthly reset is safe alongside live traffic: interleaved at
\* statement level with a record_egress call, reset_monthly_egress deletes
\* the egress alerts of earlier months and nothing else (no alert created in
\* the current month), changes no egress value, and never makes a second
\* egress_warning appear for a client and threshold that has one in the month.
C26_ResetSafeAlongsideTraffic ==
    [][/\ \A h \in JobHandlers :
            /\ (handlers[h].pc = "idle" /\ handlers'[h].pc = "log") =>
                    /\ alerts' = Without(alerts, OldEgressAlerts(alerts, now))
                    /\ egress_usage' = egress_usage
            /\ (handlers[h].pc = "log" /\ handlers'[h].pc = "idle") =>
                    /\ alerts' = alerts
                    /\ egress_usage' = egress_usage
       /\ \A c \in ClientIds, threshold \in {80, 90}, m \in Months :
            Cardinality(AlertsOf(c, "egress_warning", threshold, m)') <= 1
    ]_vars

\* In the second month the job is between its DELETE and its INSERT while a
\* download is between its alert and its history row: the client's warning of
\* the first month is gone, the one of the second month and the
\* storage_warning are there
C26_Witness ==
    /\ now = 2
    /\ handlers[2].pc = "log"
    /\ handlers[1].pc = "history"
    /\ AlertsOf(handlers[1].client_id, "egress_warning", 80, 1) = {}
    /\ Cardinality(AlertsOf(handlers[1].client_id, "egress_warning", 80, 2)) = 1
    /\ \E i \in AlertIds : alerts[i].alert_type = "storage_warning"

-----------------------------------------------------------------------------
(* Properties of failed downloads, checked under SpecDownloadErrors *)

\* C29: a download that ends in an error response has charged no egress:
\* whenever getDownloadUrl answers anything but its URL, at whatever call it
\* failed (the INSERT INTO download_history after record_egress included), the
\* egress rows and the alerts are the same as before the request.
C29_ErrorChargesNothing ==
    [][(/\ response'.op = "getDownloadUrl" /\ now' = now
        /\ response'.code # "OK") =>
        /\ egress_usage' = egress_usage
        /\ alerts' = alerts
    ]_vars

=============================================================================
